---------------------------- MODULE Spec2Model ----------------------------
(***************************************************************************)
(* Model of chat_handler.py: the streaming responder chat_respond and the  *)
(* submission/history merger handle_chat_submit that drives it.            *)
(*                                                                         *)
(* Text is modelled as a sequence of atoms (characters, or whole phrases   *)
(* for the fixed error texts).  The responder is a Python generator: it    *)
(* runs from one suspension point (a yield) or blocking call to the next,  *)
(* and each action below is one such run.  The consumer of the merger may  *)
(* resume it or close it at every yield.                                   *)
(***************************************************************************)
EXTENDS Integers, Sequences, FiniteSets, TLC

\* ------------------------------------------------------------------ bounds
\* chunks the provider delivers on one stream
MaxChunks == 3

\* -------------------------------------------------------- program constants
INFERENCE_TIMEOUT == 120
token_timeout == 30

\* seconds that may pass in one wait for the stream (20 + 20 > 30, 31 > 30)
Gaps == {20, 31}

\* ------------------------------------------------------------ text helpers
RECURSIVE lstrip(_)
lstrip(s) == IF s # <<>> /\ Head(s) = " " THEN lstrip(Tail(s)) ELSE s

RECURSIVE rstrip(_)
rstrip(s) ==
    IF s # <<>> /\ s[Len(s)] = " " THEN rstrip(SubSeq(s, 1, Len(s) - 1)) ELSE s

\* str.strip()
strip(s) == rstrip(lstrip(s))

\* Python's  sub in s  on strings
Contains(s, sub) ==
    \E i \in 1..(Len(s) - Len(sub) + 1) : SubSeq(s, i, i + Len(sub) - 1) = sub

IsPrefix(p, s) == Len(p) <= Len(s) /\ SubSeq(s, 1, Len(p)) = p

Digit == <<"0", "1", "2", "3", "4", "5", "6", "7", "8", "9">>

\* decimal rendering of a three-digit status code
Digits(n) ==
    <<Digit[(n \div 100) + 1], Digit[((n \div 10) % 10) + 1], Digit[(n % 10) + 1]>>

\* utils.format_error_message(error_type, error_message)
format_error_message(error_type, error_message) ==
    <<"X", error_type>> \o error_message

\* ------------------------------------------------------------------ inputs
\* the user's message: short texts of blanks and letters
Messages ==
    {<<>>, <<" ">>, <<" ", " ">>, <<"h">>, <<" ", "h", " ">>}

User(content) == [role |-> "user", content |-> content]
Assistant(content) == [role |-> "assistant", content |-> content]
System(content) == [role |-> "system", content |-> content]

\* the conversation so far
Histories == {<<>>, <<User(<<"q">>), Assistant(<<"r">>)>>}

system_message == <<"s">>

\* token_id values the proxy may hand out; "" is a falsy identifier
TokenIds == {"tok_1", ""}
None == "None"

\* `if token_id:`
Truthy(tid) == tid # None /\ tid # ""

\* a stream chunk: message.choices is empty, or choices[0].delta.content is
\* a text (<<>> stands for None or "")
Chunks ==
    { [hasChoice |-> FALSE, content |-> <<>>],
      [hasChoice |-> TRUE, content |-> <<>>],
      [hasChoice |-> TRUE, content |-> <<"H", "i">>],
      [hasChoice |-> TRUE, content |-> <<"!">>] }

\* ---------------------------------------------------------------- failures
HttpStatuses == {401, 402, 429, 500}
\* text an HTTP error message carries besides its status code
HttpExtras == {<<>>, <<" ", "4", "0", "1">>}

NoExc == [type |-> "none", status |-> 0, msg |-> <<>>]
ConnErr == [type |-> "ConnectionError", status |-> 0, msg |-> <<"refused">>]
OtherErr == [type |-> "Exception", status |-> 0, msg |-> <<"boom">>]
HttpErr(st, extra) ==
    [type |-> "HfHubHTTPError", status |-> st, msg |-> Digits(st) \o extra]
IdleTimeout ==
    [type |-> "TimeoutError", status |-> 0, msg |-> <<"No response received">>]
OpenTimeoutErr ==
    [type |-> "TimeoutError", status |-> 0, msg |-> <<"Chat request timed out">>]

\* a timeout the inference client raises itself (a TimeoutError subclass)
ProviderTimeout ==
    [type |-> "TimeoutError", status |-> 0, msg |-> <<"Inference timed out">>]

HttpErrs == {HttpErr(st, x) : st \in HttpStatuses, x \in HttpExtras}

\* what the proxy call may raise
ProxyErrs == {ConnErr, OtherErr}
\* what the provider may raise, opening the stream or during iteration
ProviderErrs == {ConnErr, OtherErr, ProviderTimeout} \cup HttpErrs

\* lines 117-119: what reaches the outer except clauses when e is raised
\* inside the inner try.  Where concurrent.futures.TimeoutError is the
\* builtin TimeoutError (Python 3.11 on), line 117 catches every
\* TimeoutError and line 119 raises the wall-clock one in its place;
\* before, only the one future.result raises
Reraised(e) == IF e.type = "TimeoutError" THEN {e, OpenTimeoutErr} ELSE {e}

\* str(e)
Str(e) == e.msg

\* ------------------------------------------------------------------- state
VARIABLES
    mpc,                \* handle_chat_submit: where the merger stands
    message,            \* handle_chat_submit: argument message
    history0,           \* handle_chat_submit: argument history
    history,            \* handle_chat_submit: local history (line 176)
    assistant_response, \* handle_chat_submit: local assistant_response
    mYields,            \* the pairs handle_chat_submit has yielded
    rpc,                \* chat_respond: where the generator stands
    token_id,           \* chat_respond: local token_id
    messages,           \* chat_respond: the message list sent to the provider
    response,           \* chat_respond: the accumulator
    clock,              \* time.time()
    last_token_time,    \* chat_respond: local last_token_time
    executor,           \* the ThreadPoolExecutor of line 89
    worker,             \* the task create_stream on the executor's worker
    stream,             \* the provider's stream
    pending,            \* exception in flight while the executor is left
    yields,             \* the items chat_respond has yielded
    reports,            \* the report_token_status calls made
    chunks,             \* the chunks processed by the loop body
    received,           \* number of chunks the stream has delivered
    lastExc,            \* the exception the except clauses have handled
    tokenCalls,         \* number of get_proxy_token calls
    streamCalls,        \* number of executor.submit(create_stream) calls
    escaped,            \* an exception has left chat_respond
    closed              \* the consumer closed the generators

mvars == <<mpc, message, history0, history, assistant_response, mYields>>
rvars ==
    <<rpc, token_id, messages, response, clock, last_token_time, executor,
      worker, stream, pending, yields, reports, chunks, received, lastExc,
      tokenCalls, streamCalls, escaped, closed>>
vars == <<mvars, rvars>>

Init ==
    /\ mpc = "ready"
    /\ message = <<>>
    /\ history0 = <<>>
    /\ history = <<>>
    /\ assistant_response = <<>>
    /\ mYields = <<>>
    /\ rpc = "none"
    /\ token_id = None
    /\ messages = <<>>
    /\ response = <<>>
    /\ clock = 0
    /\ last_token_time = 0
    /\ executor = "none"
    /\ worker = "none"
    /\ stream = "none"
    /\ pending = NoExc
    /\ yields = <<>>
    /\ reports = <<>>
    /\ chunks = <<>>
    /\ received = 0
    /\ lastExc = NoExc
    /\ tokenCalls = 0
    /\ streamCalls = 0
    /\ escaped = FALSE
    /\ closed = FALSE

\* ------------------------------------------------- pieces of chat_respond
\* the guard without the trimming
IsBlank_NoStrip(m) == m = <<>>

\* line 171: the guard  not message.strip()
IsBlank(m) == strip(m) = <<>>

\* lines 57-59: the provider-bound message list
BuildMessages(sys, hist, msg) == <<System(sys)>> \o hist \o <<User(msg)>>

\* the history passed on with the user turn just added to it
AllButLast_Whole(h) == h

\* line 181: history[:-1]
AllButLast(h) == SubSeq(h, 1, Len(h) - 1)

\* lines 109-111: the content the loop takes from a chunk
TokenContent(c) == IF c.hasChoice /\ c.content # <<>> THEN c.content ELSE <<>>

\* the fragment alone instead of the accumulator
Accumulate_Replace(resp, token_content) == token_content

\* the fragment put in front of the accumulator
Accumulate_Prepend(resp, token_content) == token_content \o resp

\* line 114: response += token_content
Accumulate(resp, token_content) == resp \o token_content

\* line 105: the idle check
IdleExpired(current_time, last) == current_time - last > token_timeout

\* a report made whether or not a token is held
ShouldReport_Always(tid) == TRUE

\* lines 122, 129, 137, 145, 162: the guard of every status report
ShouldReport(tid) == Truthy(tid)

\* lines 125-164: the user-facing category of a failure
Category(e) ==
    CASE e.type = "ConnectionError" -> "Connection Error"
      [] e.type = "TimeoutError" -> "Timeout Error"
      [] e.type = "HfHubHTTPError" ->
            IF Contains(Str(e), <<"4", "0", "1">>) THEN "Authentication Error"
            ELSE IF Contains(Str(e), <<"4", "0", "2">>) THEN "Quota Exceeded"
            ELSE IF Contains(Str(e), <<"4", "2", "9">>) THEN "Rate Limited"
            ELSE "HuggingFace API Error"
      [] OTHER -> "Unexpected Error"

\* lines 131, 139, 150-156, 164: the string the except clause yields
ErrorText(e) ==
    CASE Category(e) = "Connection Error" ->
            format_error_message("Connection Error", <<"Unable to connect to the proxy server.">>)
      [] Category(e) = "Timeout Error" ->
            format_error_message("Timeout Error", <<"The request took too long.">>)
      [] Category(e) = "Authentication Error" ->
            format_error_message("Authentication Error", <<"Invalid or expired API token.">>)
      [] Category(e) = "Quota Exceeded" ->
            format_error_message("Quota Exceeded", <<"API quota exceeded.">>)
      [] Category(e) = "Rate Limited" ->
            format_error_message("Rate Limited", <<"Too many requests.">>)
      [] Category(e) = "HuggingFace API Error" ->
            format_error_message("HuggingFace API Error", Str(e))
      [] OTHER ->
            format_error_message("Unexpected Error", <<"An unexpected error occurred: ">> \o Str(e))

\* the outcome of one report_token_status call: it returns, or it raises
ReportOutcomes == {"ok", "raises"}
ReportErr == ConnErr

Report(tid, status) == [token_id |-> tid, status |-> status]
Partial(text) == [kind |-> "partial", text |-> text]
Error(text) == [kind |-> "error", text |-> text]

\* the error_msg validate_proxy_key returns
KeyErrorText == <<"X", "Configuration Error", "PROXY_KEY is not set">>

\* chat_respond yields item; lines 191-195: the merger takes it as the
\* assistant's text and yields the history with the assistant turn added
Yields(item) ==
    /\ yields' = Append(yields, item)
    /\ assistant_response' = item.text
    /\ mYields' =
          Append(mYields,
                 [history |-> history \o <<Assistant(item.text)>>, box |-> <<>>])
    /\ mpc' = "y_state"
    /\ UNCHANGED <<message, history0, history>>

NoYield == UNCHANGED <<message, history0, history, assistant_response, mYields, yields>>

\* lines 125-164: an except clause handles e after `reps` reports were
\* made; `out` is the outcome of its own report_token_status call
Handle(e, reps, out) ==
    /\ lastExc' = e
    /\ IF ShouldReport(token_id)
         THEN /\ reports' = Append(reps, Report(token_id, "error"))
              /\ IF out = "ok"
                   THEN /\ Yields(Error(ErrorText(e)))
                        /\ rpc' = "y_error"
                        /\ escaped' = escaped
                   ELSE /\ NoYield
                        /\ rpc' = "done"
                        /\ mpc' = "done"
                        /\ escaped' = TRUE
         ELSE /\ reports' = reps
              /\ Yields(Error(ErrorText(e)))
              /\ rpc' = "y_error"
              /\ escaped' = escaped

\* ------------------------------------------------------ handle_chat_submit
\* lines 171-173: a blank message; the history comes back unchanged
SubmitBlank(m, h) ==
    /\ mpc = "ready"
    /\ IsBlank(m)
    /\ message' = m
    /\ history0' = h
    /\ history' = h
    /\ mYields' = Append(mYields, [history |-> h, box |-> <<>>])
    /\ mpc' = "y_empty"
    /\ UNCHANGED <<assistant_response, rvars>>

\* lines 176-191, 37-40: the user turn is added and chat_respond started;
\* validate_proxy_key rejects the local credential
SubmitInvalidKey(m, h) ==
    /\ mpc = "ready"
    /\ ~IsBlank(m)
    /\ message' = m
    /\ history0' = h
    /\ history' = h \o <<User(m)>>
    /\ yields' = Append(yields, Error(KeyErrorText))
    /\ assistant_response' = KeyErrorText
    /\ mYields' =
          Append(mYields,
                 [history |-> history' \o <<Assistant(KeyErrorText)>>, box |-> <<>>])
    /\ mpc' = "y_state"
    /\ rpc' = "y_invalid"
    /\ UNCHANGED <<token_id, messages, response, clock, last_token_time,
                   executor, worker, stream, pending, reports, chunks,
                   received, lastExc, tokenCalls, streamCalls, escaped, closed>>

\* lines 176-191, 37-48: the credential is valid and get_proxy_token is called
SubmitValidKey(m, h) ==
    /\ mpc = "ready"
    /\ ~IsBlank(m)
    /\ message' = m
    /\ history0' = h
    /\ history' = h \o <<User(m)>>
    /\ mpc' = "driving"
    /\ rpc' = "acquire"
    /\ tokenCalls' = tokenCalls + 1
    /\ UNCHANGED <<assistant_response, mYields, token_id, messages, response,
                   clock, last_token_time, executor, worker, stream, pending,
                   yields, reports, chunks, received, lastExc, streamCalls,
                   escaped, closed>>

\* ------------------------------------------------------------ chat_respond
\* lines 48-94: the proxy returns a token; the message list is built, the
\* executor created and create_stream submitted; future.result is awaited
GetProxyTokenReturns(tid) ==
    /\ rpc = "acquire"
    /\ token_id' = tid
    /\ messages' = BuildMessages(system_message, AllButLast(history), message)
    /\ response' = <<>>
    /\ executor' = "active"
    /\ worker' = "running"
    /\ streamCalls' = streamCalls + 1
    /\ rpc' = "await"
    /\ UNCHANGED <<mvars, clock, last_token_time, stream, pending, yields,
                   reports, chunks, received, lastExc, tokenCalls, escaped,
                   closed>>

\* line 48 raises: token_id is still None when the except clause runs
GetProxyTokenRaises(e) ==
    /\ rpc = "acquire"
    /\ Handle(e, reports, "ok")
    /\ UNCHANGED <<token_id, messages, response, clock, last_token_time,
                   executor, worker, stream, pending, chunks, received,
                   tokenCalls, streamCalls, closed>>

\* line 94 returns the stream within INFERENCE_TIMEOUT; lines 98-101
FutureResultReturns ==
    /\ rpc = "await"
    /\ worker = "running"
    /\ worker' = "returned"
    /\ stream' = "open"
    /\ last_token_time' = clock
    /\ rpc' = "iterate"
    /\ UNCHANGED <<mvars, token_id, messages, response, clock, executor,
                   pending, yields, reports, chunks, received, lastExc,
                   tokenCalls, streamCalls, escaped, closed>>

\* line 94 re-raises what create_stream raised; the with block is left
\* (the worker is done, shutdown returns at once) and e is handled
FutureResultRaises(e, out) ==
    /\ rpc = "await"
    /\ worker = "running"
    /\ worker' = "raised"
    /\ executor' = "shutdown"
    /\ \E r \in Reraised(e) : Handle(r, reports, out)
    /\ UNCHANGED <<token_id, messages, response, clock, last_token_time,
                   stream, pending, chunks, received, tokenCalls, streamCalls,
                   closed>>

\* lines 94, 117-119: INFERENCE_TIMEOUT passes with the worker still running;
\* future.cancel() cannot cancel a running task; TimeoutError is raised and
\* the with block's exit calls executor.shutdown(wait=True), which joins
\* the worker
FutureResultTimesOut ==
    /\ rpc = "await"
    /\ worker = "running"
    /\ clock' = clock + INFERENCE_TIMEOUT
    /\ pending' = OpenTimeoutErr
    /\ rpc' = "exit_wait"
    /\ UNCHANGED <<mvars, token_id, messages, response, last_token_time,
                   executor, worker, stream, yields, reports, chunks, received,
                   lastExc, tokenCalls, streamCalls, escaped, closed>>

\* the abandoned create_stream call ends after all (its result is dropped):
\* shutdown(wait=True) returns, the with block is left, lines 133-139 run
WorkerFinishesLate(how, out) ==
    /\ rpc = "exit_wait"
    /\ worker = "running"
    /\ worker' = how
    /\ executor' = "shutdown"
    /\ pending' = NoExc
    /\ Handle(pending, reports, out)
    /\ UNCHANGED <<token_id, messages, response, clock, last_token_time,
                   stream, chunks, received, tokenCalls, streamCalls, closed>>

\* the abandoned create_stream call never returns: shutdown(wait=True)
\* never returns either
WorkerBlocksForever ==
    /\ rpc = "exit_wait"
    /\ worker = "running"
    /\ worker' = "blocked"
    /\ UNCHANGED <<mvars, rpc, token_id, messages, response, clock,
                   last_token_time, executor, stream, pending, yields, reports,
                   chunks, received, lastExc, tokenCalls, streamCalls, escaped,
                   closed>>

\* line 101 blocks in next(stream) while time passes; nothing is checked
\* until the stream delivers something
Wait(gap) ==
    /\ rpc = "iterate"
    /\ stream = "open"
    /\ ~IdleExpired(clock, last_token_time)
    /\ clock' = clock + gap
    /\ UNCHANGED <<mvars, rpc, token_id, messages, response, last_token_time,
                   executor, worker, stream, pending, yields, reports, chunks,
                   received, lastExc, tokenCalls, streamCalls, escaped, closed>>

\* the yield placed under `if token_content:`: nothing is yielded for a
\* chunk without content
ChunkProcessed_YieldOnContent(c) ==
    /\ rpc = "iterate"
    /\ stream = "open"
    /\ received < MaxChunks
    /\ ~IdleExpired(clock, last_token_time)
    /\ received' = received + 1
    /\ last_token_time' =
          IF TokenContent(c) # <<>> THEN clock ELSE last_token_time
    /\ response' = Accumulate(response, TokenContent(c))
    /\ chunks' = Append(chunks, c)
    /\ IF TokenContent(c) # <<>>
         THEN Yields(Partial(response')) /\ rpc' = "y_partial"
         ELSE NoYield /\ UNCHANGED <<mpc, rpc>>
    /\ UNCHANGED <<token_id, messages, clock, executor, worker, stream,
                   pending, reports, lastExc, tokenCalls, streamCalls, escaped,
                   closed>>

\* the idle clock reset by every chunk, with content or without
ChunkProcessed_ResetsAlways(c) ==
    /\ rpc = "iterate"
    /\ stream = "open"
    /\ received < MaxChunks
    /\ ~IdleExpired(clock, last_token_time)
    /\ received' = received + 1
    /\ last_token_time' = clock
    /\ response' = Accumulate(response, TokenContent(c))
    /\ chunks' = Append(chunks, c)
    /\ Yields(Partial(response'))
    /\ rpc' = "y_partial"
    /\ UNCHANGED <<token_id, messages, clock, executor, worker, stream,
                   pending, reports, lastExc, tokenCalls, streamCalls, escaped,
                   closed>>

\* lines 101-115: a chunk arrives in time; its content is added and the
\* accumulator yielded
ChunkProcessed(c) ==
    /\ rpc = "iterate"
    /\ stream = "open"
    /\ received < MaxChunks
    /\ ~IdleExpired(clock, last_token_time)
    /\ received' = received + 1
    /\ last_token_time' =
          IF TokenContent(c) # <<>> THEN clock ELSE last_token_time
    /\ response' = Accumulate(response, TokenContent(c))
    /\ chunks' = Append(chunks, c)
    /\ Yields(Partial(response'))
    /\ rpc' = "y_partial"
    /\ UNCHANGED <<token_id, messages, clock, executor, worker, stream,
                   pending, reports, lastExc, tokenCalls, streamCalls, escaped,
                   closed>>

\* lines 101-106, 133-139: a chunk arrives after the idle window; the loop
\* raises before looking at it
ChunkTooLate(c, out) ==
    /\ rpc = "iterate"
    /\ stream = "open"
    /\ received < MaxChunks
    /\ IdleExpired(clock, last_token_time)
    /\ received' = received + 1
    /\ executor' = "shutdown"
    /\ \E r \in Reraised(IdleTimeout) : Handle(r, reports, out)
    /\ UNCHANGED <<token_id, messages, response, clock, last_token_time,
                   worker, stream, pending, chunks, tokenCalls, streamCalls,
                   closed>>

\* lines 101, 120-123: the stream is exhausted, the with block left and
\* 'success' reported
StreamEnds ==
    /\ rpc = "iterate"
    /\ stream = "open"
    /\ stream' = "ended"
    /\ executor' = "shutdown"
    /\ reports' =
          IF ShouldReport(token_id)
            THEN Append(reports, Report(token_id, "success"))
            ELSE reports
    /\ rpc' = "done"
    /\ mpc' = "done"
    /\ NoYield
    /\ UNCHANGED <<token_id, messages, response, clock, last_token_time,
                   worker, pending, chunks, received, lastExc, tokenCalls,
                   streamCalls, escaped, closed>>

\* lines 123, 125-164: the 'success' report itself raises, inside the try
StreamEndsReportRaises(out) ==
    /\ rpc = "iterate"
    /\ stream = "open"
    /\ ShouldReport(token_id)
    /\ stream' = "ended"
    /\ executor' = "shutdown"
    /\ Handle(ReportErr, Append(reports, Report(token_id, "success")), out)
    /\ UNCHANGED <<token_id, messages, response, clock, last_token_time,
                   worker, pending, chunks, received, tokenCalls, streamCalls,
                   closed>>

\* the executor shut down on the success path only
StreamRaises_NoShutdown(e, out) ==
    /\ rpc = "iterate"
    /\ stream = "open"
    /\ stream' = "failed"
    /\ \E r \in Reraised(e) : Handle(r, reports, out)
    /\ UNCHANGED <<token_id, messages, response, clock, last_token_time,
                   executor, worker, pending, chunks, received, tokenCalls,
                   streamCalls, closed>>

\* line 101 raises: the provider fails during iteration
StreamRaises(e, out) ==
    /\ rpc = "iterate"
    /\ stream = "open"
    /\ stream' = "failed"
    /\ executor' = "shutdown"
    /\ \E r \in Reraised(e) : Handle(r, reports, out)
    /\ UNCHANGED <<token_id, messages, response, clock, last_token_time,
                   worker, pending, chunks, received, tokenCalls, streamCalls,
                   closed>>

\* line 101 blocks for good: the provider delivers nothing more
StreamHangs ==
    /\ rpc = "iterate"
    /\ stream = "open"
    /\ stream' = "hung"
    /\ UNCHANGED <<mvars, rpc, token_id, messages, response, clock,
                   last_token_time, executor, worker, pending, yields, reports,
                   chunks, received, lastExc, tokenCalls, streamCalls, escaped,
                   closed>>

\* ------------------------------------------------------------ the consumer
\* next() on the merger after a partial response: the loop asks for more
ResumeStream ==
    /\ mpc = "y_state"
    /\ rpc = "y_partial"
    /\ mpc' = "driving"
    /\ rpc' = "iterate"
    /\ UNCHANGED <<message, history0, history, assistant_response, mYields,
                   token_id, messages, response, clock, last_token_time,
                   executor, worker, stream, pending, yields, reports, chunks,
                   received, lastExc, tokenCalls, streamCalls, escaped, closed>>

\* an except clause placed inside the loop: iteration goes on after it
ResumeAfterError_Continues ==
    /\ mpc = "y_state"
    /\ rpc \in {"y_error", "y_invalid"}
    /\ mpc' = IF stream = "open" THEN "driving" ELSE "done"
    /\ rpc' = IF stream = "open" THEN "iterate" ELSE "done"
    /\ UNCHANGED <<message, history0, history, assistant_response, mYields,
                   token_id, messages, response, clock, last_token_time,
                   executor, worker, stream, pending, yields, reports, chunks,
                   received, lastExc, tokenCalls, streamCalls, escaped, closed>>

\* a retry loop around the try: after an error the token is asked for again
ResumeAfterError_Retries ==
    /\ mpc = "y_state"
    /\ rpc \in {"y_error", "y_invalid"}
    /\ mpc' = IF rpc = "y_error" THEN "driving" ELSE "done"
    /\ rpc' = IF rpc = "y_error" THEN "acquire" ELSE "done"
    /\ tokenCalls' = IF rpc = "y_error" THEN tokenCalls + 1 ELSE tokenCalls
    /\ UNCHANGED <<message, history0, history, assistant_response, mYields,
                   token_id, messages, response, clock, last_token_time,
                   executor, worker, stream, pending, yields, reports, chunks,
                   received, lastExc, streamCalls, escaped, closed>>

\* line 40 left out: after the credential error the function goes on
ResumeAfterError_NoReturn ==
    /\ mpc = "y_state"
    /\ rpc \in {"y_error", "y_invalid"}
    /\ mpc' = IF rpc = "y_invalid" THEN "driving" ELSE "done"
    /\ rpc' = IF rpc = "y_invalid" THEN "acquire" ELSE "done"
    /\ tokenCalls' = IF rpc = "y_invalid" THEN tokenCalls + 1 ELSE tokenCalls
    /\ UNCHANGED <<message, history0, history, assistant_response, mYields,
                   token_id, messages, response, clock, last_token_time,
                   executor, worker, stream, pending, yields, reports, chunks,
                   received, lastExc, streamCalls, escaped, closed>>

\* next() after an error string (lines 39-40 or the end of an except
\* clause): chat_respond returns and the merger's loop ends
ResumeAfterError ==
    /\ mpc = "y_state"
    /\ rpc \in {"y_error", "y_invalid"}
    /\ mpc' = "done"
    /\ rpc' = "done"
    /\ UNCHANGED <<message, history0, history, assistant_response, mYields,
                   token_id, messages, response, clock, last_token_time,
                   executor, worker, stream, pending, yields, reports, chunks,
                   received, lastExc, tokenCalls, streamCalls, escaped, closed>>

\* next() after line 172: the merger returns
ResumeBlank ==
    /\ mpc = "y_empty"
    /\ mpc' = "done"
    /\ UNCHANGED <<message, history0, history, assistant_response, mYields,
                   rvars>>

\* the consumer closes the merger at a yield; chat_respond is closed with
\* it: GeneratorExit is raised at its yield, no except clause catches it,
\* and only the with block's exit runs
Close ==
    /\ mpc \in {"y_empty", "y_state"}
    /\ mpc' = "done"
    /\ closed' = TRUE
    /\ rpc' = IF rpc = "none" THEN "none" ELSE "done"
    /\ executor' = IF executor = "active" THEN "shutdown" ELSE executor
    /\ UNCHANGED <<message, history0, history, assistant_response, mYields,
                   token_id, messages, response, clock, last_token_time,
                   worker, stream, pending, yields, reports, chunks, received,
                   lastExc, tokenCalls, streamCalls, escaped>>

Next ==
    \/ \E m \in Messages, h \in Histories : SubmitBlank(m, h)
    \/ \E m \in Messages, h \in Histories : SubmitInvalidKey(m, h)
    \/ \E m \in Messages, h \in Histories : SubmitValidKey(m, h)
    \/ \E tid \in TokenIds : GetProxyTokenReturns(tid)
    \/ \E e \in ProxyErrs : GetProxyTokenRaises(e)
    \/ FutureResultReturns
    \/ \E e \in ProviderErrs, out \in ReportOutcomes : FutureResultRaises(e, out)
    \/ FutureResultTimesOut
    \/ \E how \in {"returned", "raised"}, out \in ReportOutcomes :
          WorkerFinishesLate(how, out)
    \/ WorkerBlocksForever
    \/ \E gap \in Gaps : Wait(gap)
    \/ \E c \in Chunks : ChunkProcessed(c)
    \/ \E c \in Chunks, out \in ReportOutcomes : ChunkTooLate(c, out)
    \/ StreamEnds
    \/ \E out \in ReportOutcomes : StreamEndsReportRaises(out)
    \/ \E e \in ProviderErrs, out \in ReportOutcomes : StreamRaises(e, out)
    \/ StreamHangs
    \/ ResumeStream
    \/ ResumeAfterError
    \/ ResumeBlank
    \/ Close

Spec == Init /\ [][Next]_vars

\* every blocking call that returns and every consumer step is taken; a
\* call that blocks for good (WorkerBlocksForever, StreamHangs) leaves
\* nothing to take
FairSpec == Spec /\ WF_vars(Next)

\* ------------------------------------------------------------- properties
Last(s) == s[Len(s)]

\* the content fragment a chunk carries (<<>> when it carries none)
ChunkFragment(c) == IF c.hasChoice THEN c.content ELSE <<>>

\* f1 + ... + fn over the chunks cs, in order
RECURSIVE ConcatFragments(_)
ConcatFragments(cs) ==
    IF cs = <<>> THEN <<>>
    ELSE ConcatFragments(SubSeq(cs, 1, Len(cs) - 1)) \o ChunkFragment(Last(cs))

\* the chunks of cs that carry a non-empty fragment
ContentChunks(cs) == SelectSeq(cs, LAMBDA c : ChunkFragment(c) # <<>>)

\* the assistant text of a pair the merger yielded
AssistantText(pair) == Last(pair.history).content

\* a failure was handled by an except clause that ran to its yield
Failed == lastExc # NoExc /\ ~escaped

ReportedFor(tid) == \E i \in DOMAIN reports : reports[i].token_id = tid

\* C1: whenever chat_respond has finished after get_proxy_token returned a
\* token, report_token_status has been called for that token, whichever way
\* the call ended.  (Stated for the identifiers that pass `if token_id:`;
\* a falsy identifier is never reported at all.)
C1_TokenAlwaysReported ==
    (rpc = "done" /\ Truthy(token_id)) => ReportedFor(token_id)

\* C2 (as claimed): when chat_respond ends in a failure at token
\* acquisition, at stream opening or during iteration, the formatted error
\* string is the only item it has yielded.
C2_ErrorIsOnlyItem ==
    (Failed /\ stream # "ended" /\ rpc \in {"y_error", "done"})
        => yields = <<Error(ErrorText(lastExc))>>

\* C2 (amended): an error string is yielded at most once and nothing follows
\* it; after a handled failure it is the final item, and the items before it
\* are the partial responses of the chunks processed before the failure, so
\* it is the only item when the failure precedes the first chunk.
C2_ErrorIsFinalItem ==
    /\ \A i \in DOMAIN yields : yields[i].kind = "error" => i = Len(yields)
    /\ Failed =>
          /\ yields # <<>>
          /\ Last(yields) = Error(ErrorText(lastExc))
          /\ Len(yields) = Len(chunks) + 1
          /\ rpc \in {"y_error", "done"}

C2_Witness ==
    /\ Failed
    /\ rpc = "done"
    /\ ~closed
    /\ Len(yields) = 3
    /\ yields[2].text # <<>>

\* C3: once the stream is open and the idle window elapses without a content
\* fragment, chat_respond eventually raises the idle timeout, yields the
\* timeout error and terminates, also when the provider never delivers
\* anything again.  (Stated for that last case: a stream that blocks for
\* good has let every idle window pass.)
C3_IdleTimeoutFires ==
    (rpc = "iterate" /\ stream = "hung")
        ~> (rpc = "done" /\ lastExc \in Reraised(IdleTimeout))

\* C4: when INFERENCE_TIMEOUT elapses before the stream-opening call has
\* returned, chat_respond eventually handles the timeout (reports 'error',
\* yields the timeout error) and terminates, even if the call never returns.
C4_OpenTimeoutFires ==
    (rpc = "exit_wait") ~> (rpc = "done" /\ lastExc = OpenTimeoutErr)

\* the stream was exhausted and nothing failed
StreamSucceeded == stream = "ended" /\ lastExc = NoExc

\* C5 (as claimed): a successful stream yields one string per non-empty
\* content fragment, the i-th being f1 + ... + fi.
C5_OneYieldPerFragment ==
    StreamSucceeded =>
        /\ Len(yields) = Len(ContentChunks(chunks))
        /\ \A i \in DOMAIN yields :
              yields[i].text =
                  ConcatFragments(SubSeq(ContentChunks(chunks), 1, i))

\* C5 (amended): chat_respond yields one string per chunk processed,
\* content-bearing or not, the i-th being the concatenation of the fragments
\* of chunks 1..i; each yielded string extends the previous one (equals it
\* after a content-less chunk) and, on a successful stream, nothing else is
\* yielded and the last string is the full response f1 + ... + fn.
C5_OneYieldPerChunk ==
    /\ Len(chunks) <= Len(yields)
    /\ \A i \in DOMAIN chunks :
          yields[i] = Partial(ConcatFragments(SubSeq(chunks, 1, i)))
    /\ \A i \in DOMAIN chunks :
          i > 1 => IsPrefix(yields[i - 1].text, yields[i].text)
    /\ StreamSucceeded =>
          /\ Len(yields) = Len(chunks)
          /\ response = ConcatFragments(ContentChunks(chunks))
          /\ yields # <<>> => Last(yields).text = response

C5_Witness ==
    /\ StreamSucceeded
    /\ Len(chunks) = 3
    /\ Len(ContentChunks(chunks)) = 2
    /\ response = <<"H", "i", "!">>

\* the merger returned after a non-blank message, neither closed by its
\* consumer nor left by an exception
MergerReturned ==
    mpc = "done" /\ strip(message) # <<>> /\ ~closed /\ ~escaped

\* C6: after a non-blank message the merger has yielded at least one state
\* and its final history is the initial history, the user turn and one
\* assistant turn holding the last value chat_respond yielded.
C6_FinalHistoryHasAssistantTurn ==
    MergerReturned =>
        /\ mYields # <<>>
        /\ yields # <<>>
        /\ Last(mYields).history =
              history0 \o <<User(message), Assistant(Last(yields).text)>>

\* C7 (as claimed): the assistant text of every intermediate yielded history
\* is a prefix of the assistant text of the final one.
C7_IntermediateIsPrefixOfFinal ==
    (mpc = "done" /\ strip(message) # <<>>) =>
        \A i \in DOMAIN mYields :
            IsPrefix(AssistantText(mYields[i]), AssistantText(Last(mYields)))

\* C7 (amended): the assistant text of every yielded history is a prefix of
\* that of every later yielded history that holds a partial response, hence
\* of the final one whenever chat_respond yields no error string; after a
\* failure the final text is the error string, which replaces the partial
\* responses instead of extending them.
C7_IntermediateIsPrefixOfLaterPartial ==
    strip(message) # <<>> =>
        /\ Len(mYields) = Len(yields)
        /\ \A j \in DOMAIN mYields :
              /\ mYields[j].history =
                    history0 \o <<User(message), Assistant(yields[j].text)>>
              /\ yields[j].kind = "partial" =>
                    \A i \in 1..j :
                        IsPrefix(AssistantText(mYields[i]),
                                 AssistantText(mYields[j]))

C7_Witness ==
    /\ MergerReturned
    /\ StreamSucceeded
    /\ Len(mYields) = 3
    /\ AssistantText(mYields[1]) = <<"!">>
    /\ AssistantText(mYields[3]) = <<"!", "H", "i">>

\* C8: for a blank message the merger yields exactly one pair, the history
\* unchanged with an empty box, and stops; chat_respond is never started:
\* no token is asked for, no streaming call made, nothing reported.
C8_BlankMessageYieldsHistoryOnce ==
    (mpc # "ready" /\ strip(message) = <<>>) =>
        /\ mpc \in {"y_empty", "done"}
        /\ mYields = <<[history |-> history0, box |-> <<>>]>>
        /\ rpc = "none"
        /\ yields = <<>>
        /\ tokenCalls = 0
        /\ streamCalls = 0
        /\ executor = "none"
        /\ reports = <<>>

C8_Witness ==
    /\ mpc = "done"
    /\ ~closed
    /\ message = <<" ", " ">>
    /\ history0 # <<>>
    /\ Len(mYields) = 1

\* get_proxy_token was called and raised a connection failure
TokenConnectionFailure ==
    tokenCalls = 1 /\ token_id = None /\ lastExc.type = "ConnectionError"

\* C9: when get_proxy_token raises a connection failure, the streaming call
\* is never attempted, nothing is reported to the proxy, and chat_respond
\* yields exactly one item, the "Connection Error" message, and terminates.
C9_TokenFailureYieldsConnectionError ==
    TokenConnectionFailure =>
        /\ streamCalls = 0
        /\ executor = "none"
        /\ worker = "none"
        /\ reports = <<>>
        /\ Len(yields) = 1
        /\ yields[1].kind = "error"
        /\ yields[1].text[2] = "Connection Error"
        /\ rpc \in {"y_error", "done"}
        /\ ~escaped

C9_Witness ==
    /\ TokenConnectionFailure
    /\ rpc = "done"
    /\ mpc = "done"
    /\ ~closed
    /\ Len(mYields) = 1

\* the category the status code alone stands for
CategoryOfStatus(st) ==
    CASE st = 401 -> "Authentication Error"
      [] st = 402 -> "Quota Exceeded"
      [] st = 429 -> "Rate Limited"
      [] OTHER -> "HuggingFace API Error"

\* C10: for a provider HTTP error the category of the yielded message is
\* given by the status code alone, whatever else the error text contains.
C10_CategoryByStatusCode ==
    (Failed /\ lastExc.type = "HfHubHTTPError")
        => Last(yields).text[2] = CategoryOfStatus(lastExc.status)

\* C11: in one invocation get_proxy_token is called at most once and the
\* streaming call submitted at most once, and once a failure has been
\* handled neither is called again.
C11_NoRetry ==
    [][/\ tokenCalls' <= 1
       /\ streamCalls' <= 1
       /\ streamCalls' <= tokenCalls'
       /\ (lastExc # NoExc \/ escaped) =>
             (tokenCalls' = tokenCalls /\ streamCalls' = streamCalls)]_vars

C11_Witness ==
    /\ Failed
    /\ rpc = "done"
    /\ ~closed
    /\ tokenCalls = 1
    /\ streamCalls = 1
    /\ stream = "failed"

\* C12: when validate_proxy_key rejects the local credential, chat_respond
\* has yielded exactly one error string and its next step is to stop:
\* get_proxy_token, the inference client and report_token_status are never
\* called.
C12_InvalidKeyStops ==
    [][rpc = "y_invalid" =>
          /\ yields = <<Error(KeyErrorText)>>
          /\ rpc' = "done"
          /\ yields' = yields
          /\ tokenCalls' = 0
          /\ streamCalls' = 0
          /\ executor' = "none"
          /\ worker' = "none"
          /\ reports' = <<>>]_vars

C12_Witness ==
    /\ rpc = "done"
    /\ mpc = "done"
    /\ ~closed
    /\ yields = <<Error(KeyErrorText)>>
    /\ tokenCalls = 0

\* the partial responses among the items yielded
PartialYields == SelectSeq(yields, LAMBDA y : y.kind = "partial")

\* C13 (as claimed): chat_respond yields once per non-empty content fragment
\* and only then, so there are as many partial responses as content-bearing
\* chunks and no value is yielded twice in a row.
C13_YieldOnlyOnContent ==
    /\ Len(PartialYields) = Len(ContentChunks(chunks))
    /\ \A i \in DOMAIN yields : i > 1 => yields[i] # yields[i - 1]

\* C13 (amended): chat_respond yields once per chunk processed, with content
\* or without: there are as many partial responses as chunks, and a partial
\* response equals the one before it (the empty text for the first) exactly
\* when its chunk carries no content.
C13_YieldOnEveryChunk ==
    /\ Len(PartialYields) = Len(chunks)
    /\ \A i \in DOMAIN chunks :
          /\ yields[i].kind = "partial"
          /\ (yields[i].text = (IF i = 1 THEN <<>> ELSE yields[i - 1].text))
                <=> (ChunkFragment(chunks[i]) = <<>>)
    /\ StreamSucceeded => Len(yields) = Len(chunks)

C13_Witness ==
    /\ StreamSucceeded
    /\ Len(chunks) = 3
    /\ yields[1].text # <<>>
    /\ yields[2] = yields[1]
    /\ yields[3] # yields[2]

\* C14: on a failure after a token was obtained, 'error' is reported for
\* the token, then the error string is yielded, and no exception leaves the
\* generator, also when a report_token_status call itself raises.  (Stated
\* for the identifiers that pass `if token_id:`.)
C14_ErrorReportedNothingEscapes ==
    (Truthy(token_id) /\ lastExc # NoExc) =>
        /\ ~escaped
        /\ reports # <<>>
        /\ Last(reports) = Report(token_id, "error")
        /\ yields # <<>>
        /\ Last(yields) = Error(ErrorText(lastExc))

\* C16: at most one status report is made for the token, 'success' only
\* when the stream completed and no error string is yielded, 'error' only
\* after a failure; never both, also when the success report raises.
C16_OneReportMatchingOutcome ==
    /\ Len(reports) <= 1
    /\ \A i \in DOMAIN reports :
          /\ reports[i].token_id = token_id
          /\ reports[i].status = "success" =>
                (stream = "ended" /\ \A j \in DOMAIN yields : yields[j].kind # "error")
          /\ reports[i].status = "error" => lastExc # NoExc

\* C15: the message list sent to the provider is the system prompt, the
\* initial history in order, and the new user message once, as the last
\* element.
C15_MessagesSentOnce ==
    streamCalls = 1 =>
        /\ messages = <<System(system_message)>> \o history0 \o <<User(message)>>
        /\ Len(messages) = Len(history0) + 2
        /\ history = history0 \o <<User(message)>>

C15_Witness ==
    /\ streamCalls = 1
    /\ stream = "open"
    /\ history0 # <<>>
    /\ message = <<" ", "h", " ">>
    /\ Last(messages) = User(message)

\* C17: each arriving chunk is checked before it is processed: when more
\* than token_timeout has passed since the last chunk with content (or
\* since the stream was opened) the timeout is raised and the chunk is
\* neither added to the accumulator nor yielded; otherwise the chunk is
\* processed, and the idle clock is reset by a chunk with content only.
C17_IdleClockResetByContentOnly ==
    [][/\ received' = received + 1 =>
             IF clock - last_token_time > token_timeout
               THEN /\ response' = response
                    /\ chunks' = chunks
                    /\ PartialYields' = PartialYields
                    /\ last_token_time' = last_token_time
                    /\ lastExc'.type = "TimeoutError"
                    /\ rpc' \in {"y_error", "done"}
               ELSE /\ Len(chunks') = Len(chunks) + 1
                    /\ response' = response \o ChunkFragment(Last(chunks'))
                    /\ last_token_time' =
                          IF ChunkFragment(Last(chunks')) # <<>>
                            THEN clock
                            ELSE last_token_time
       /\ last_token_time' # last_token_time =>
             \/ rpc = "await"
             \/ /\ received' = received + 1
                /\ ChunkFragment(Last(chunks')) # <<>>]_vars

C17_Witness ==
    /\ rpc = "done"
    /\ lastExc.type = "TimeoutError"
    /\ received = Len(chunks) + 1
    /\ Len(chunks) = 2
    /\ ChunkFragment(chunks[1]) # <<>>
    /\ ChunkFragment(chunks[2]) = <<>>
    /\ clock - last_token_time = 40

\* C18: when the generator has terminated, the executor it created has
\* been shut down, and no status report is sent while the executor is
\* still up.
C18_ExecutorShutDownBeforeReport ==
    /\ (rpc = "done" /\ streamCalls = 1) => executor = "shutdown"
    /\ reports # <<>> => executor = "shutdown"
    /\ streamCalls = 0 => executor = "none"

C18_Witness ==
    /\ rpc = "done"
    /\ ~closed
    /\ lastExc = OpenTimeoutErr
    /\ clock = INFERENCE_TIMEOUT
    /\ worker = "returned"
    /\ executor = "shutdown"
    /\ reports = <<Report(token_id, "error")>>
=============================================================================
